---- MODULE Spec2Model ----
(***************************************************************************)
(* Model of the directed-motif programs q2.py (canonical forms, motif      *)
(* enumeration, motif counting) and q1.py (weakly connected graphs up to   *)
(* isomorphism).                                                           *)
(*                                                                         *)
(* Python values are represented as follows.  A tuple or list is a TLA+    *)
(* sequence; vertex i of range(n) sits at index i+1.  An edge (u, v) is    *)
(* the pair <<u, v>>.  A dict is a function whose domain is its key set.   *)
(* None is the record field none = TRUE.                                   *)
(***************************************************************************)
EXTENDS Integers, Sequences, FiniteSets, TLC

VARIABLES
    pc,             \* position of the running program
    n,              \* q2.main / q1: the size read from the input
    edges,          \* q2.main: host edge list, in input order
    vertices,       \* q2.main: sorted list of the host's vertices
    mask,           \* generate_all_unique_motifs: loop variable
    unique_motifs,  \* generate_all_unique_motifs: dict canonical -> edge list
    all_motifs,     \* q2.main: sorted list of (canonical, edge list)
    comb,           \* q2.main: position of combinations(vertices, n)
    motif_counts,   \* q2.main: defaultdict(int)
    report,         \* print_and_save_results: the count printed per motif
    n_vertices,     \* graph_to_canonical caller: first argument
    edge_list,      \* graph_to_canonical caller: second argument
    other_list,     \* graph_to_canonical caller: a second graph / relabeling
    canonical,      \* graph_to_canonical caller: value returned for edge_list
    other_canonical,\* graph_to_canonical caller: value returned for other_list
    graphs,         \* q1: list of accepted graphs
    r,              \* q1: subset size of the outer loop
    edge_subset,    \* q1: position of combinations(all_edges, r)
    G               \* q1: the graph under test

mainVars == <<n, edges, vertices, mask, unique_motifs, all_motifs, comb,
              motif_counts, report>>
canonVars == <<n_vertices, edge_list, other_list, canonical, other_canonical>>
q1Vars == <<graphs, r, edge_subset, G>>
vars == <<pc, mainVars, canonVars, q1Vars>>

----------------------------------------------------------------------------
(* Bounds of the explored inputs.                                          *)

MaxN == 2          \* q2.main: largest motif size read
MaxLabel == 4      \* q2.main: host vertices are labelled 1..MaxLabel
MaxHostLen == 2    \* q2.main: most edges in the host edge list
MaxGenN == 3       \* generate_all_unique_motifs alone: largest size
MaxK == 3          \* graph_to_canonical alone: most vertices
MaxLen == 2        \* graph_to_canonical alone: longest edge list
MaxPairK == 2      \* graph_to_canonical on two graphs: most vertices
MaxPairLen == 2    \* graph_to_canonical on two graphs: longest first list
MaxQ1N == 3        \* q1: largest n

----------------------------------------------------------------------------
(* Python built-ins used by the programs.                                  *)

\* tuple(f): the function f on 1..k as a tuple
tuple(f) == f \o <<>>

\* range(k) as a list
range(k) == [i \in 1..k |-> i - 1]

\* a < b for two tuples of integers
RECURSIVE RowLess(_, _)
RowLess(a, b) ==
    IF a = <<>> THEN b # <<>>
    ELSE IF b = <<>> THEN FALSE
    ELSE IF Head(a) # Head(b) THEN Head(a) < Head(b)
    ELSE RowLess(Tail(a), Tail(b))

\* a > b instead of a < b
RECURSIVE TupleGreater(_, _)
TupleGreater(a, b) ==
    IF b = <<>> THEN a # <<>>
    ELSE IF a = <<>> THEN FALSE
    ELSE IF Head(a) # Head(b) THEN RowLess(Head(b), Head(a))
    ELSE TupleGreater(Tail(a), Tail(b))

\* a < b for two tuples of tuples of integers
RECURSIVE TupleLess(_, _)
TupleLess(a, b) ==
    IF a = <<>> THEN b # <<>>
    ELSE IF b = <<>> THEN FALSE
    ELSE IF Head(a) # Head(b) THEN RowLess(Head(a), Head(b))
    ELSE TupleLess(Tail(a), Tail(b))

\* only the identity arrangement
identityOnly(pool) == << pool >>

\* itertools.permutations(pool), in the order itertools yields them
RECURSIVE permutations(_)
RECURSIVE PermsFrom(_, _)
PermsFrom(pool, i) ==
    IF i > Len(pool) THEN <<>>
    ELSE LET rest == SubSeq(pool, 1, i - 1) \o SubSeq(pool, i + 1, Len(pool))
             tails == permutations(rest)
         IN [j \in 1..Len(tails) |-> <<pool[i]>> \o tails[j]]
                \o PermsFrom(pool, i + 1)
permutations(pool) ==
    IF pool = <<>> THEN << <<>> >> ELSE PermsFrom(pool, 1)

\* itertools.combinations over a pool of m items, r at a time: the first
\* index tuple (1-based positions into the pool)
FirstComb(k) == [i \in 1..k |-> i]

\* whether the index tuple c has a successor
HasNextComb(c, m) == \E i \in 1..Len(c) : c[i] # i + m - Len(c)

\* the successor of the index tuple c
NextComb(c, m) ==
    LET k == Len(c)
        i == CHOOSE x \in 1..k : /\ c[x] # x + m - k
                                 /\ \A y \in (x + 1)..k : c[y] = y + m - k
    IN [j \in 1..k |-> IF j < i THEN c[j] ELSE c[i] + 1 + (j - i)]

\* sorted(S) for a set of integers
RECURSIVE sorted(_)
sorted(S) ==
    IF S = {} THEN <<>>
    ELSE LET m == CHOOSE x \in S : \A y \in S : x <= y
         IN <<m>> \o sorted(S \ {m})

\* sorted(d.items()) for a dict keyed by tuples of tuples: the key with i - 1
\* smaller keys comes i-th
sortedItems(d) ==
    LET ranked == {<<Cardinality({y \in DOMAIN d : TupleLess(y, x)}), x>> :
                      x \in DOMAIN d}
    IN tuple([i \in 1..Cardinality(DOMAIN d) |->
                 LET c == (CHOOSE t \in ranked : t[1] = i - 1)[2]
                 IN <<c, d[c]>>])

\* d.get(key, 0)
get(d, key) == IF key \in DOMAIN d THEN d[key] ELSE 0

EmptyDict == [x \in {} |-> 0]

----------------------------------------------------------------------------
(* q2.py: graph_to_canonical                                               *)

\* adj[v][u] is set as well as adj[u][v]
SymmetricAdjacency(k, el) ==
    tuple([i \in 1..k |-> tuple([j \in 1..k |->
        IF \E e \in 1..Len(el) : el[e] = <<i - 1, j - 1>> \/ el[e] = <<j - 1, i - 1>>
        THEN 1 ELSE 0])])

\* lines 41-43: the adjacency matrix of an edge list
Adjacency(k, el) ==
    tuple([i \in 1..k |-> tuple([j \in 1..k |->
        IF \E e \in 1..Len(el) : el[e] = <<i - 1, j - 1>> THEN 1 ELSE 0])])

\* only the rows are permuted
RowsPermuted(k, adj, perm) ==
    tuple([i \in 1..k |-> tuple([j \in 1..k |-> adj[perm[i] + 1][j]])])

\* lines 50-56: the matrix permuted by perm, as a tuple of tuples
PermutedTuple(k, adj, perm) ==
    tuple([i \in 1..k |-> tuple([j \in 1..k |-> adj[perm[i] + 1][perm[j] + 1]])])

NoneYet == [none |-> TRUE, adj |-> <<>>]

\* lines 48-59: the loop over the permutations, from the i-th one on
RECURSIVE BestFrom(_, _, _, _, _)
BestFrom(k, adj, perms, i, best_adj) ==
    IF i > Len(perms) THEN best_adj
    ELSE LET perm_tuple == PermutedTuple(k, adj, perms[i])
         IN IF best_adj.none \/ TupleLess(perm_tuple, best_adj.adj)
            THEN BestFrom(k, adj, perms, i + 1, [none |-> FALSE, adj |-> perm_tuple])
            ELSE BestFrom(k, adj, perms, i + 1, best_adj)

graph_to_canonical(k, el) ==
    BestFrom(k, Adjacency(k, el), permutations(range(k)), 1, NoneYet).adj

----------------------------------------------------------------------------
(* q2.py: generate_all_unique_motifs                                       *)

\* range(n) x range(n) in the order of the two nested loops: the pair at
\* position i*k+j is (i, j)
PairsInLoopOrder(k) ==
    tuple([b \in 1..(k * k) |-> <<(b - 1) \div k, (b - 1) % k>>])

\* the diagonal positions are skipped
MaskEdgesNoLoops(k, m) ==
    SelectSeq(PairsInLoopOrder(k),
              LAMBDA e : (m \div (2 ^ (e[1] * k + e[2]))) % 2 = 1 /\ e[1] # e[2])

\* lines 88-94: the edge list decoded from mask m, bit i*k+j for edge (i, j)
MaskEdges(k, m) ==
    SelectSeq(PairsInLoopOrder(k),
              LAMBDA e : (m \div (2 ^ (e[1] * k + e[2]))) % 2 = 1)

\* a later mask overwrites the stored edge list
StoreLast(d, c, el) == [x \in DOMAIN d \cup {c} |-> IF x = c THEN el ELSE d[x]]

\* lines 100-101: store the first occurrence of each canonical form
StoreFirst(d, c, el) == IF c \in DOMAIN d THEN d ELSE d @@ (c :> el)

\* lines 87-101: the body of the loop over the masks
GenerateBody(d, k, m) ==
    LET el == MaskEdges(k, m)
    IN StoreFirst(d, graph_to_canonical(k, el), el)

\* lines 86-101: the loop over the masks lo, ..., hi-1, in increasing order
\* (split in two halves, the lower half evaluated first, to keep the
\* evaluation shallow)
RECURSIVE GenerateRange(_, _, _, _)
GenerateRange(k, lo, hi, d) ==
    IF lo >= hi THEN d
    ELSE IF hi = lo + 1 THEN GenerateBody(d, k, lo)
    ELSE LET mid == (lo + hi) \div 2
             lower == GenerateRange(k, lo, mid, d)
         IN IF lower = d THEN GenerateRange(k, mid, hi, d)
                         ELSE GenerateRange(k, mid, hi, lower)

\* lines 83-105
generate_all_unique_motifs(k) ==
    sortedItems(GenerateRange(k, 0, 2 ^ (k * k), EmptyDict))

\* the value of generate_all_unique_motifs for each size main can read,
\* computed once
MotifTable == {<<k, generate_all_unique_motifs(k)>> : k \in 0..MaxN}

----------------------------------------------------------------------------
(* q2.py: get_subgraph_edges, subgraph_to_canonical                        *)

\* lines 27-34
get_subgraph_edges(vertex_subset, es) ==
    LET vertex_set == {vertex_subset[i] : i \in 1..Len(vertex_subset)}
    IN SelectSeq(es, LAMBDA e : e[1] \in vertex_set /\ e[2] \in vertex_set)

\* lines 68-74
subgraph_to_canonical(vs, es) ==
    LET vertex_list == sorted({vs[i] : i \in 1..Len(vs)})
        vertex_map == [v \in {vs[i] : i \in 1..Len(vs)} |->
                          (CHOOSE i \in 1..Len(vertex_list) : vertex_list[i] = v) - 1]
        el == [e \in 1..Len(es) |-> <<vertex_map[es[e][1]], vertex_map[es[e][2]]>>]
    IN graph_to_canonical(Len(vs), el)

\* the count is set to 1 instead of incremented
SetToOne(d, c) == [x \in DOMAIN d \cup {c} |-> IF x = c THEN 1 ELSE d[x]]

\* line 176: motif_counts[canonical] += 1 on a defaultdict(int)
Increment(d, c) == [x \in DOMAIN d \cup {c} |-> IF x = c THEN get(d, c) + 1 ELSE d[x]]

----------------------------------------------------------------------------
(* Values of the variables a program does not use.                         *)

CanonIdle ==
    /\ n_vertices = 0
    /\ edge_list = <<>>
    /\ other_list = <<>>
    /\ canonical = <<>>
    /\ other_canonical = <<>>

Q1Idle ==
    /\ graphs = <<>>
    /\ r = 0
    /\ edge_subset = <<>>
    /\ G = [nodes |-> {}, edges |-> {}]

GenerateIdle ==
    /\ mask = 0
    /\ unique_motifs = EmptyDict

CountIdle ==
    /\ edges = <<>>
    /\ vertices = <<>>
    /\ comb = <<>>
    /\ motif_counts = EmptyDict
    /\ report = <<>>

----------------------------------------------------------------------------
(* q2.py: main                                                             *)

Labels == 1..MaxLabel

\* the edge lists read_input can return: any pairs of labels, in any order,
\* duplicates and self-loops included
HostEdgeLists == UNION {[1..l -> Labels \X Labels] : l \in 0..MaxHostLen}

\* lines 11-21: the sorted list of the vertices that occur in the edges
HostVertices(es) ==
    sorted({es[i][1] : i \in 1..Len(es)} \cup {es[i][2] : i \in 1..Len(es)})

\* line 160: the state after read_input
Init ==
    /\ pc = "generate"
    /\ n \in 0..MaxN
    /\ edges \in HostEdgeLists
    /\ vertices = HostVertices(edges)
    /\ all_motifs = <<>>
    /\ comb = <<>>
    /\ motif_counts = EmptyDict
    /\ report = <<>>
    /\ GenerateIdle
    /\ CanonIdle
    /\ Q1Idle

\* n < len(vertices) instead of n <= len(vertices)
FewerThanVertices(k, vs) == k < Len(vs)

\* line 168: whether the loop over the vertex subsets is entered
EntersLoop(k, vs) == k <= Len(vs)

\* lines 163-170: the motifs are generated, the counts start empty, and
\* the loop over the vertex subsets is entered when n <= len(vertices)
Generate ==
    /\ pc = "generate"
    /\ all_motifs' = (CHOOSE t \in MotifTable : t[1] = n)[2]
    /\ motif_counts' = EmptyDict
    /\ IF EntersLoop(n, vertices)
       THEN pc' = "count" /\ comb' = FirstComb(n)
       ELSE pc' = "report" /\ comb' = comb
    /\ UNCHANGED <<n, edges, vertices, mask, unique_motifs, report>>
    /\ UNCHANGED <<canonVars, q1Vars>>

\* lines 170-176: one iteration of the loop over combinations(vertices, n)
CountStep ==
    /\ pc = "count"
    /\ LET vertex_subset == [i \in 1..n |-> vertices[comb[i]]]
           subgraph_edges == get_subgraph_edges(vertex_subset, edges)
           c == subgraph_to_canonical(vertex_subset, subgraph_edges)
       IN motif_counts' = Increment(motif_counts, c)
    /\ IF HasNextComb(comb, Len(vertices))
       THEN pc' = pc /\ comb' = NextComb(comb, Len(vertices))
       ELSE pc' = "report" /\ comb' = comb
    /\ UNCHANGED <<n, edges, vertices, mask, unique_motifs, all_motifs, report>>
    /\ UNCHANGED <<canonVars, q1Vars>>

\* lines 144-153 (and 115-124): the count reported for each motif
Report ==
    /\ pc = "report"
    /\ report' = [i \in 1..Len(all_motifs) |-> get(motif_counts, all_motifs[i][1])]
    /\ pc' = "done"
    /\ UNCHANGED <<n, edges, vertices, mask, unique_motifs, all_motifs, comb,
                   motif_counts>>
    /\ UNCHANGED <<canonVars, q1Vars>>

Next == Generate \/ CountStep \/ Report

Spec == Init /\ [][Next]_vars

----------------------------------------------------------------------------
(* q2.py: generate_all_unique_motifs, one mask at a time                   *)

InitGenerate ==
    /\ pc = "masks"
    /\ n \in 0..MaxGenN
    /\ mask = 0
    /\ unique_motifs = EmptyDict
    /\ all_motifs = <<>>
    /\ CountIdle
    /\ CanonIdle
    /\ Q1Idle

\* lines 86-101: one iteration of the loop over the masks
GenerateStep ==
    /\ pc = "masks"
    /\ mask < 2 ^ (n * n)
    /\ unique_motifs' = GenerateBody(unique_motifs, n, mask)
    /\ mask' = mask + 1
    /\ UNCHANGED <<pc, n, edges, vertices, all_motifs, comb, motif_counts, report>>
    /\ UNCHANGED <<canonVars, q1Vars>>

\* lines 104-105: the motifs are sorted and returned
GenerateReturn ==
    /\ pc = "masks"
    /\ mask = 2 ^ (n * n)
    /\ all_motifs' = sortedItems(unique_motifs)
    /\ pc' = "returned"
    /\ UNCHANGED <<n, edges, vertices, mask, unique_motifs, comb, motif_counts,
                   report>>
    /\ UNCHANGED <<canonVars, q1Vars>>

NextGenerate == GenerateStep \/ GenerateReturn

SpecGenerate == InitGenerate /\ [][NextGenerate]_vars

----------------------------------------------------------------------------
(* Notions the properties are stated with, defined without the program's   *)
(* loops.                                                                  *)

\* the relabelings of 0..k-1: the bijections p of 0..k-1
Relabelings(k) == Permutations(0..(k - 1))

\* the k-by-k adjacency matrix of a set of edges over 0..k-1
MatrixOf(k, E) ==
    tuple([i \in 1..k |-> tuple([j \in 1..k |-> IF <<i - 1, j - 1>> \in E THEN 1 ELSE 0])])

\* A'[i][j] = A[p(i)][p(j)]
Relabeled(k, A, p) ==
    tuple([i \in 1..k |-> tuple([j \in 1..k |-> A[p[i - 1] + 1][p[j - 1] + 1]])])

\* the matrix read row by row
RowMajor(k, A) ==
    tuple([x \in 1..(k * k) |-> A[((x - 1) \div k) + 1][((x - 1) % k) + 1]])

\* lexicographic order on two sequences of the same length
LexSmaller(a, b) ==
    \E i \in 1..Len(a) : a[i] < b[i] /\ \A j \in 1..(i - 1) : a[j] = b[j]

\* c is the smallest relabeling of the matrix A
IsSmallestRelabeling(k, c, A) ==
    LET flat == RowMajor(k, c)
    IN /\ \E p \in Relabelings(k) : c = Relabeled(k, A, p)
       /\ \A p \in Relabelings(k) : ~LexSmaller(RowMajor(k, Relabeled(k, A, p)), flat)

\* the smallest relabeling of the matrix A
SmallestRelabeling(k, A) ==
    LET all == {Relabeled(k, A, p) : p \in Relabelings(k)}
    IN CHOOSE c \in all : \A d \in all : ~LexSmaller(RowMajor(k, d), RowMajor(k, c))

\* two matrices are isomorphic
Isomorphic(k, A, B) == \E p \in Relabelings(k) : B = Relabeled(k, A, p)

\* the binomial coefficient C(m, k)
RECURSIVE Binomial(_, _)
Binomial(m, k) ==
    IF k < 0 \/ k > m THEN 0
    ELSE IF k = 0 \/ k = m THEN 1
    ELSE Binomial(m - 1, k - 1) + Binomial(m - 1, k)

\* the sum of s[lo], ..., s[hi]
RECURSIVE SumRange(_, _, _)
SumRange(s, lo, hi) ==
    IF lo > hi THEN 0
    ELSE IF lo = hi THEN s[lo]
    ELSE LET mid == (lo + hi) \div 2
         IN SumRange(s, lo, mid) + SumRange(s, mid + 1, hi)

\* the sum of a sequence of numbers
Sum(s) == SumRange(s, 1, Len(s))

\* the host's vertex set and edge set
HostVertexSet == {edges[i][1] : i \in 1..Len(edges)} \cup {edges[i][2] : i \in 1..Len(edges)}
HostEdgeSet == {edges[i] : i \in 1..Len(edges)}

\* the matrix of the subgraph induced by the vertex set S, its vertices
\* numbered in increasing order of their labels
InducedMatrix(S) ==
    LET rank == [v \in S |-> Cardinality({w \in S : w < v})]
    IN MatrixOf(Cardinality(S),
                {<<rank[e[1]], rank[e[2]]>> : e \in {x \in HostEdgeSet : x[1] \in S /\ x[2] \in S}})

TableForms == {all_motifs[i][1] : i \in 1..Len(all_motifs)}

----------------------------------------------------------------------------
(* Properties of q2.main                                                   *)

\* C4: when the Motif Counter has finished, the reported counts sum to
\* C(|V|, n) if n <= |V| and to 0 otherwise, and every canonical form that
\* was counted is a key of the motif table.
C4_CountsSumToBinomial ==
    pc = "done" =>
        /\ Sum(report) = IF n <= Cardinality(HostVertexSet)
                         THEN Binomial(Cardinality(HostVertexSet), n) ELSE 0
        /\ DOMAIN motif_counts \subseteq TableForms

\* C4 witness: the counter has finished for n = 2 on a host with three
\* vertices and a self-loop, and the counts sum to C(3, 2) = 3.
C4_Witness ==
    /\ pc = "done"
    /\ n = 2
    /\ Cardinality(HostVertexSet) = 3
    /\ \E i \in 1..Len(edges) : edges[i][1] = edges[i][2]
    /\ Sum(report) = 3

\* C5: the count reported for a motif is the number of n-element vertex
\* subsets whose induced subgraph has the motif's canonical form; for n = 2
\* and the host with the single edge (1, 2), the motif "one directed edge,
\* no self-loop" is reported once and every other motif zero times.
C5_CountIsNumberOfInducedSubgraphs ==
    pc = "done" =>
        /\ Len(report) = Len(all_motifs)
        /\ LET form == {<<S, SmallestRelabeling(n, InducedMatrix(S))>> :
                            S \in {T \in SUBSET HostVertexSet : Cardinality(T) = n}}
           IN \A i \in 1..Len(all_motifs) :
                  report[i] = Cardinality({t \in form : t[2] = all_motifs[i][1]})
        /\ (n = 2 /\ edges = << <<1, 2>> >>) =>
               \E i \in 1..Len(all_motifs) :
                   /\ report[i] = 1
                   /\ Len(all_motifs[i][2]) = 1
                   /\ all_motifs[i][2][1][1] # all_motifs[i][2][1][2]
                   /\ \A j \in 1..Len(all_motifs) : j # i => report[j] = 0

\* C5 witness: the counter has finished for n = 2 on a host with three
\* vertices, two of whose pairs induce the same motif.
C5_Witness ==
    /\ pc = "done"
    /\ n = 2
    /\ Cardinality(HostVertexSet) = 3
    /\ \E i \in 1..Len(report) : report[i] = 2

\* C6 as stated: generate_all_unique_motifs(2) returns exactly 3 classes.
C6_ThreeClasses ==
    (pc # "generate" /\ n = 2) => Len(all_motifs) = 3 /\ Cardinality(TableForms) = 3

\* C6 as amended: generate_all_unique_motifs(2), which includes the
\* self-loop positions, returns exactly 10 classes, all distinct.
C6_TenClasses ==
    (pc # "generate" /\ n = 2) => Len(all_motifs) = 10 /\ Cardinality(TableForms) = 10

\* C6 witness: the motifs of size 2 have been generated.
C6_Witness == pc = "count" /\ n = 2 /\ Len(all_motifs) = 10

\* C8: for n = 0 the motif table holds the single empty canonical form, one
\* (empty) vertex selection is counted, and the reported count is 1 for
\* every host graph.
C8_SizeZero ==
    /\ (pc # "generate" /\ n = 0) => Len(all_motifs) = 1 /\ all_motifs[1][1] = <<>>
    /\ (pc \in {"report", "done"} /\ n = 0) => motif_counts = (<<>> :> 1)
    /\ (pc = "done" /\ n = 0) => report = <<1>>

\* C8 witness: the counter has finished for n = 0 on a host with three
\* vertices.
C8_Witness == pc = "done" /\ n = 0 /\ Len(vertices) = 3 /\ report = <<1>>

----------------------------------------------------------------------------
(* Properties of generate_all_unique_motifs                                *)

\* the set of edges mask m stands for: bit i*k+j set iff edge (i, j)
MaskEdgeSet(k, m) ==
    {e \in (0..(k - 1)) \X (0..(k - 1)) : (m \div (2 ^ (e[1] * k + e[2]))) % 2 = 1}

\* el lists the edges of mask m once each, in increasing bit order
IsDecodingOf(k, el, m) ==
    /\ {el[i] : i \in 1..Len(el)} = MaskEdgeSet(k, m)
    /\ \A i, j \in 1..Len(el) :
           i < j => el[i][1] * k + el[i][2] < el[j][1] * k + el[j][2]

\* the canonical form of every mask visited so far
VisitedForms == {<<m, graph_to_canonical(n, MaskEdges(n, m))>> : m \in 0..(mask - 1)}

\* the smallest mask with canonical form c among the visited ones
FirstMaskOf(c, visited) ==
    LET ms == {t[1] : t \in {x \in visited : x[2] = c}}
    IN CHOOSE m \in ms : \A o \in ms : m <= o

\* C10: at every point of the loop over the masks 0, 1, 2, ..., the edge
\* list stored for a canonical form is the decoding of the smallest mask
\* visited so far that has this canonical form (so no later mask replaces
\* it), its own canonical form is its key, and the returned pairs are the
\* stored ones.
C10_FirstWriterWins ==
    LET visited == VisitedForms
    IN /\ DOMAIN unique_motifs = {t[2] : t \in visited}
       /\ \A c \in DOMAIN unique_motifs :
              LET first == FirstMaskOf(c, visited)
              IN /\ IsDecodingOf(n, unique_motifs[c], first)
                 /\ IsSmallestRelabeling(n, c, MatrixOf(n, MaskEdgeSet(n, first)))
                 /\ graph_to_canonical(n, unique_motifs[c]) = c
       /\ pc = "returned" =>
              /\ mask = 2 ^ (n * n)
              /\ {all_motifs[i] : i \in 1..Len(all_motifs)}
                     = {<<c, unique_motifs[c]>> : c \in DOMAIN unique_motifs}

\* C10 witness: for n = 3 the generator has returned; the edge list (0, 1)
\* of mask 2 is kept for a form that the later mask of edge (2, 0) has too.
C10_Witness ==
    /\ pc = "returned"
    /\ n = 3
    /\ \E i \in 1..Len(all_motifs) :
           /\ all_motifs[i][2] = << <<0, 1>> >>
           /\ graph_to_canonical(n, << <<2, 0>> >>) = all_motifs[i][1]

----------------------------------------------------------------------------
(* q2.py: graph_to_canonical, called on its own                            *)

\* the edge lists over 0..k-1 of at most len edges: any order, duplicates
\* and self-loops included
EdgeLists(k, len) ==
    UNION {[1..l -> (0..(k - 1)) \X (0..(k - 1))] : l \in 0..len}

\* the edge list with (u, v) replaced by (p(u), p(v))
RelabeledList(el, p) == [i \in 1..Len(el) |-> <<p[el[i][1]], p[el[i][2]]>>]

EdgeSet(el) == {el[i] : i \in 1..Len(el)}

InitCanon ==
    /\ pc = "call"
    /\ n_vertices \in 0..MaxK
    /\ edge_list \in EdgeLists(n_vertices, MaxLen)
    /\ other_list = <<>>
    /\ canonical = <<>>
    /\ other_canonical = <<>>
    /\ n = 0
    /\ all_motifs = <<>>
    /\ GenerateIdle
    /\ CountIdle
    /\ Q1Idle

\* lines 36-61, on (n_vertices, edge_list)
Canonicalize ==
    /\ pc = "call"
    /\ canonical' = graph_to_canonical(n_vertices, edge_list)
    /\ pc' = "returned"
    /\ UNCHANGED <<n_vertices, edge_list, other_list, other_canonical>>
    /\ UNCHANGED <<mainVars, q1Vars>>

\* lines 36-61, on the same graph with its vertices relabeled
CanonicalizeRelabeled ==
    /\ pc = "returned"
    /\ \E p \in Relabelings(n_vertices) :
           /\ other_list' = RelabeledList(edge_list, p)
           /\ other_canonical' = graph_to_canonical(n_vertices, RelabeledList(edge_list, p))
    /\ pc' = "relabeled"
    /\ UNCHANGED <<n_vertices, edge_list, canonical>>
    /\ UNCHANGED <<mainVars, q1Vars>>

NextCanon == Canonicalize \/ CanonicalizeRelabeled

SpecCanon == InitCanon /\ [][NextCanon]_vars

\* C1: the canonical form of a relabeled graph is the canonical form of
\* the graph.
C1_RelabelingInvariant ==
    pc = "relabeled" => other_canonical = canonical

\* C1 witness: a graph on 3 vertices given by a duplicated edge has been
\* canonicalized under a relabeling that changes its adjacency matrix.
C1_Witness ==
    /\ pc = "relabeled"
    /\ n_vertices = 3
    /\ Len(edge_list) = 2
    /\ edge_list[1] = edge_list[2]
    /\ edge_list[1][1] # edge_list[1][2]
    /\ MatrixOf(n_vertices, EdgeSet(other_list)) # MatrixOf(n_vertices, EdgeSet(edge_list))
    /\ other_canonical = canonical

\* C3: the value returned is one of the relabeled adjacency matrices, and
\* no relabeled adjacency matrix is smaller in row-major order.
C3_SmallestRelabeledMatrix ==
    pc = "returned" =>
        IsSmallestRelabeling(n_vertices, canonical,
                             MatrixOf(n_vertices, EdgeSet(edge_list)))

\* C3 witness: a graph on 3 vertices whose own matrix is not the smallest
\* has been canonicalized, and some relabeled matrix is larger than the result.
C3_Witness ==
    /\ pc = "returned"
    /\ n_vertices = 3
    /\ canonical # MatrixOf(n_vertices, EdgeSet(edge_list))
    /\ \E p \in Relabelings(n_vertices) :
           LexSmaller(RowMajor(n_vertices, canonical),
                      RowMajor(n_vertices, Relabeled(n_vertices, MatrixOf(n_vertices, EdgeSet(edge_list)), p)))

----------------------------------------------------------------------------
(* q2.py: graph_to_canonical, called on two graphs                         *)

InitPair ==
    /\ pc = "call"
    /\ n_vertices \in 0..MaxPairK
    /\ edge_list \in EdgeLists(n_vertices, MaxPairLen)
    /\ other_list = <<>>
    /\ canonical = <<>>
    /\ other_canonical = <<>>
    /\ n = 0
    /\ all_motifs = <<>>
    /\ GenerateIdle
    /\ CountIdle
    /\ Q1Idle

\* lines 36-61, on any graph over the same vertices
CanonicalizeOther ==
    /\ pc = "returned"
    /\ \E m \in 0..(2 ^ (n_vertices * n_vertices) - 1) :
           /\ other_list' = MaskEdges(n_vertices, m)
           /\ other_canonical' = graph_to_canonical(n_vertices, MaskEdges(n_vertices, m))
    /\ pc' = "compared"
    /\ UNCHANGED <<n_vertices, edge_list, canonical>>
    /\ UNCHANGED <<mainVars, q1Vars>>

NextPair == Canonicalize \/ CanonicalizeOther

SpecPair == InitPair /\ [][NextPair]_vars

\* C2: two graphs with the same canonical form are isomorphic.
C2_EqualFormsAreIsomorphic ==
    (pc = "compared" /\ canonical = other_canonical) =>
        Isomorphic(n_vertices, MatrixOf(n_vertices, EdgeSet(edge_list)),
                   MatrixOf(n_vertices, EdgeSet(other_list)))

\* C2 witness: two different graphs on 2 vertices with the same canonical
\* form have been compared.
C2_Witness ==
    /\ pc = "compared"
    /\ n_vertices = 2
    /\ canonical = other_canonical
    /\ EdgeSet(edge_list) # EdgeSet(other_list)
    /\ Cardinality(EdgeSet(edge_list)) = 2

----------------------------------------------------------------------------
(* q1.py: generate_weakly_connected_graphs                                 *)

\* line 14: all ordered pairs (i, j) of range(k) with i # j, i first
all_edges(k) ==
    LET pairs == [x \in 1..(k * k) |-> <<(x - 1) \div k, (x - 1) % k>>]
    IN SelectSeq(pairs, LAMBDA e : e[1] # e[2])

\* the nodes reachable from the nodes in S along edges in either direction
RECURSIVE Reachable(_, _)
Reachable(S, E) ==
    LET more == S \cup {e[2] : e \in {x \in E : x[1] \in S}}
                  \cup {e[1] : e \in {x \in E : x[2] \in S}}
    IN IF more = S THEN S ELSE Reachable(more, E)

\* line 24: networkx.is_weakly_connected on a graph with at least one node
is_weakly_connected(g) ==
    Reachable({CHOOSE v \in g.nodes : TRUE}, g.edges) = g.nodes

\* line 29: networkx.is_isomorphic on two directed graphs
is_isomorphic(g, h) ==
    /\ Cardinality(g.nodes) = Cardinality(h.nodes)
    /\ Cardinality(g.edges) = Cardinality(h.edges)
    /\ \E f \in Permutations(g.nodes) :
           {<<f[e[1]], f[e[2]]>> : e \in g.edges} = h.edges

\* only the graph accepted last is compared
IsNewAgainstLast(g, accepted) ==
    accepted = <<>> \/ ~is_isomorphic(g, accepted[Len(accepted)])

\* lines 27-31: whether the graph is isomorphic to no accepted graph
IsNew(g, accepted) ==
    \A i \in 1..Len(accepted) : ~is_isomorphic(g, accepted[i])

InitQ1 ==
    /\ pc = "start"
    /\ n \in 0..MaxQ1N
    /\ graphs = <<>>
    /\ r = 0
    /\ edge_subset = <<>>
    /\ G = [nodes |-> {}, edges |-> {}]
    /\ all_motifs = <<>>
    /\ GenerateIdle
    /\ CountIdle
    /\ CanonIdle

\* lines 17-18: the loops move on to the next edge subset, or end (line 36)
Advance ==
    LET m == Len(all_edges(n))
    IN IF HasNextComb(edge_subset, m)
       THEN /\ edge_subset' = NextComb(edge_subset, m)
            /\ r' = r
            /\ pc' = "build"
       ELSE IF r < m
       THEN /\ edge_subset' = FirstComb(r + 1)
            /\ r' = r + 1
            /\ pc' = "build"
       ELSE /\ edge_subset' = edge_subset
            /\ r' = r
            /\ pc' = "returned"

\* lines 11-18: the loops are entered at r = 1, or not at all when
\* range(1, len(all_edges) + 1) is empty (then line 36 returns)
Start ==
    /\ pc = "start"
    /\ graphs' = <<>>
    /\ IF 1 <= Len(all_edges(n))
       THEN r' = 1 /\ edge_subset' = FirstComb(1) /\ pc' = "build"
       ELSE r' = r /\ edge_subset' = edge_subset /\ pc' = "returned"
    /\ UNCHANGED <<n, G>>
    /\ UNCHANGED <<edges, vertices, mask, unique_motifs, all_motifs, comb,
                   motif_counts, report, canonVars>>

\* lines 19-21: the graph of the current edge subset
Build ==
    /\ pc = "build"
    /\ G' = [nodes |-> 0..(n - 1),
             edges |-> {all_edges(n)[edge_subset[i]] : i \in 1..Len(edge_subset)}]
    /\ pc' = "connected"
    /\ UNCHANGED <<n, graphs, r, edge_subset>>
    /\ UNCHANGED <<edges, vertices, mask, unique_motifs, all_motifs, comb,
                   motif_counts, report, canonVars>>

\* line 24
CheckConnected ==
    /\ pc = "connected"
    /\ IF is_weakly_connected(G)
       THEN pc' = "dedup" /\ UNCHANGED <<r, edge_subset>>
       ELSE Advance
    /\ UNCHANGED <<n, graphs, G>>
    /\ UNCHANGED <<edges, vertices, mask, unique_motifs, all_motifs, comb,
                   motif_counts, report, canonVars>>

\* lines 27-34
Dedup ==
    /\ pc = "dedup"
    /\ graphs' = IF IsNew(G, graphs) THEN Append(graphs, G) ELSE graphs
    /\ Advance
    /\ UNCHANGED <<n, G>>
    /\ UNCHANGED <<edges, vertices, mask, unique_motifs, all_motifs, comb,
                   motif_counts, report, canonVars>>

NextQ1 == Start \/ Build \/ CheckConnected \/ Dedup

SpecQ1 == InitQ1 /\ [][NextQ1]_vars

----------------------------------------------------------------------------
(* Properties of generate_weakly_connected_graphs                          *)

\* the self-loop-free edges over 0..k-1
LoopFreePairs(k) == {e \in (0..(k - 1)) \X (0..(k - 1)) : e[1] # e[2]}

\* every split of the vertices in two non-empty parts is crossed by an edge
WeaklyConnected(k, E) ==
    \A S \in SUBSET (0..(k - 1)) :
        (S # {} /\ S # 0..(k - 1)) =>
            \E e \in E : (e[1] \in S) # (e[2] \in S)

\* some relabeling of the vertices maps the edge set E onto F
IsomorphicEdgeSets(k, E, F) ==
    /\ Cardinality(E) = Cardinality(F)
    /\ \E p \in Relabelings(k) : {<<p[e[1]], p[e[2]]>> : e \in E} = F

\* C7 as stated: for n = 1 the generator returns exactly one graph, the
\* single vertex without edges.
C7_OneGraphForOneVertex ==
    (pc = "returned" /\ n = 1) =>
        /\ Len(graphs) = 1
        /\ graphs[1] = [nodes |-> {0}, edges |-> {}]

\* C9: the returned graphs are weakly connected and self-loop-free, no two
\* of them are isomorphic, and every weakly connected self-loop-free graph
\* on 0..n-1 with at least one edge is isomorphic to exactly one of them.
C9_ClassRepresentatives ==
    pc = "returned" =>
        /\ \A i \in 1..Len(graphs) :
               /\ graphs[i].nodes = 0..(n - 1)
               /\ graphs[i].edges \subseteq LoopFreePairs(n)
               /\ WeaklyConnected(n, graphs[i].edges)
        /\ \A i, j \in 1..Len(graphs) :
               i # j => ~IsomorphicEdgeSets(n, graphs[i].edges, graphs[j].edges)
        /\ \A E \in SUBSET LoopFreePairs(n) :
               (E # {} /\ WeaklyConnected(n, E)) =>
                   Cardinality({i \in 1..Len(graphs) :
                                   IsomorphicEdgeSets(n, E, graphs[i].edges)}) = 1

\* C9 witness: the generator has returned the 13 graphs for n = 3.
C9_Witness == pc = "returned" /\ n = 3 /\ Len(graphs) = 13

====
